---- MODULE Spec2Model ----
(***************************************************************************)
(* Model of cutsea110/sqlx-test, src/src/main.rs and src/src/transaction.rs *)
(*                                                                         *)
(* Four parts share the module:                                            *)
(*   - the sqlx transaction examples driven by main (explicit rollback,    *)
(*     implicit rollback on drop, commit), specification Spec;             *)
(*   - the Tx combinator algebra (trait Tx and its combinator structs),    *)
(*     specification SpecTx;                                               *)
(*   - the whole library: Tx methods, the free functions and the           *)
(*     Transaction / WithCtx of transaction.rs, specification SpecLib;     *)
(*   - the where clauses deciding which arguments a combinator call        *)
(*     accepts, specification SpecSig.                                     *)
(***************************************************************************)
EXTENDS Integers, Sequences, FiniteSets, TLC

VARIABLES
    pc,        \* main's position: the next await of main or of the example it called
    idx,       \* which example main is in (index into Examples), 0 before the first
    table,     \* ids of the rows of todos visible outside any transaction
    handle,    \* the sqlx::Transaction of the current example: [state, writes]
    ledger,    \* what the pool and the handle of the current example were asked to do
    bodyRes,   \* outcome of insert_and_verify in the current example
    ret,       \* what the current example returned
    mainRes,   \* what main returned
    tx,        \* the transaction value under construction / consumed by run
    phase,     \* "build" while tx is composed, "ran" once run consumed it
    st,        \* the context run threads through the leaves: [ctx, calls]
    result,    \* the outcome run returned
    runs,      \* how many times run was invoked on the value tx
    call,      \* the combinator call expression handed to the type checker
    accepted   \* what the type checker said about call: "none", "yes", "no"

runnerVars == <<pc, idx, table, handle, ledger, bodyRes, ret, mainRes>>
checkVars == <<call, accepted>>
txVars == <<tx, phase, st, result, runs, call, accepted>>
vars == <<pc, idx, table, handle, ledger, bodyRes, ret, mainRes, tx, phase, st, result,
          runs, call, accepted>>

(***************************************************************************)
(* Bounds                                                                  *)
(***************************************************************************)
\* ids a row of todos may carry; the table may hold any of them before main starts
MaxId == 3
\* how many combinators are applied on top of the first leaf
MaxDepth == 2
\* how deep a composition may be for a free function to be applied to it
MaxFnDepth == 1
\* how many times Transaction::run is invoked on one WithCtx value
MaxRuns == 2

(***************************************************************************)
(* Part 1: main and the three transaction examples                         *)
(***************************************************************************)
\* let test_id = 1;
TestId == 1

Ids == 1..MaxId

\* the order in which main calls the examples
Examples == <<"explicit_rollback_example", "implicit_rollback_example", "commit_example">>

\* Box<dyn std::error::Error> built by `?` from the sqlx error
Boxed(e) == [boxed |-> e]
RetNone == [set |-> FALSE, ok |-> FALSE, err |-> Boxed("none")]
RetOk == [set |-> TRUE, ok |-> TRUE, err |-> Boxed("none")]
RetErr(e) == [set |-> TRUE, ok |-> FALSE, err |-> Boxed(e)]

NoHandle == [state |-> "none", writes |-> {}]

\* number of entries of the ledger equal to ev
Count(ev) == Cardinality({i \in DOMAIN ledger : ledger[i] = ev})

\* the rows a statement on the handle sees: the committed ones and its own writes
Sees(h) == table \cup h.writes

\* the effect on the table of the three ways a handle ends
CommitTable(h) == table \cup h.writes
RollbackTable(h) == table
DropTable(h) == table

InitRunner ==
    /\ pc = "delete"
    /\ idx = 0
    /\ table \in SUBSET Ids
    /\ handle = NoHandle
    /\ ledger = <<>>
    /\ bodyRes = RetNone
    /\ ret = RetNone
    /\ mainRes = RetNone

\* FailAndDrop with the bug of an explicit rollback call on the error path
FailAndRollback(e, ev) ==
    /\ ledger' = ledger \o <<ev, "rollback">>
    /\ handle' = [handle EXCEPT !.state = "rolledback"]
    /\ table' = RollbackTable(handle)
    /\ ret' = RetErr(e)
    /\ pc' = "returned"

\* `?` on a failed await while the handle is held: the function returns the boxed
\* error and the handle goes out of scope uncommitted
FailAndDrop(e, ev) ==
    /\ ledger' = ledger \o <<ev, "drop">>
    /\ handle' = [handle EXCEPT !.state = "dropped"]
    /\ table' = DropTable(handle)
    /\ ret' = RetErr(e)
    /\ pc' = "returned"

\* DELETE FROM todos WHERE id = test_id, on the pool
MainDelete ==
    /\ pc = "delete"
    /\ \/ /\ table' = table \ {TestId}
          /\ idx' = 1
          /\ pc' = "begin"
          /\ UNCHANGED mainRes
       \/ /\ mainRes' = RetErr("delete_err")
          /\ pc' = "done"
          /\ UNCHANGED <<table, idx>>
    /\ UNCHANGED <<handle, ledger, bodyRes, ret>>
    /\ UNCHANGED txVars

\* Begin with the bug of a rollback issued although no handle was obtained
BeginFailRollsBack ==
    /\ pc = "begin"
    /\ \/ /\ handle' = [state |-> "open", writes |-> {}]
          /\ ledger' = <<"begin">>
          /\ pc' = "insert"
          /\ UNCHANGED ret
       \/ /\ ledger' = <<"begin_failed", "rollback">>
          /\ ret' = RetErr("begin_err")
          /\ pc' = "returned"
          /\ UNCHANGED handle
    /\ UNCHANGED <<idx, table, bodyRes, mainRes>>
    /\ UNCHANGED txVars

\* let mut transaction = pool.begin().await?;
Begin ==
    /\ pc = "begin"
    /\ \/ /\ handle' = [state |-> "open", writes |-> {}]
          /\ ledger' = <<"begin">>
          /\ pc' = "insert"
          /\ UNCHANGED ret
       \/ /\ ledger' = <<"begin_failed">>
          /\ ret' = RetErr("begin_err")
          /\ pc' = "returned"
          /\ UNCHANGED handle
    /\ UNCHANGED <<idx, table, bodyRes, mainRes>>
    /\ UNCHANGED txVars

\* insert_and_verify: INSERT INTO todos ... .execute(&mut **transaction).await?
Insert ==
    /\ pc = "insert"
    /\ handle.state = "open"
    /\ \/ /\ handle' = [handle EXCEPT !.writes = @ \cup {TestId}]
          /\ ledger' = Append(ledger, "exec INSERT")
          /\ pc' = "select"
          /\ UNCHANGED <<table, bodyRes, ret>>
       \/ /\ bodyRes' = RetErr("insert_err")
          /\ FailAndDrop("insert_err", "exec INSERT")
    /\ UNCHANGED <<idx, mainRes>>
    /\ UNCHANGED txVars

\* Select with the bug of finishing the body before the SELECT was executed
SelectDeferred ==
    /\ pc = "select"
    /\ handle.state = "open"
    /\ bodyRes' = RetOk
    /\ pc' = "final"
    /\ UNCHANGED <<table, handle, ledger, ret>>
    /\ UNCHANGED <<idx, mainRes>>
    /\ UNCHANGED txVars

\* insert_and_verify: SELECT FROM todos WHERE id = $1 .fetch_one(&mut **transaction).await?
\* fetch_one fails when the row is not there or the statement fails
Select ==
    /\ pc = "select"
    /\ handle.state = "open"
    /\ \/ /\ TestId \in Sees(handle)
          /\ ledger' = Append(ledger, "exec SELECT")
          /\ bodyRes' = RetOk
          /\ pc' = "final"
          /\ UNCHANGED <<table, handle, ret>>
       \/ /\ bodyRes' = RetErr("select_err")
          /\ FailAndDrop("select_err", "exec SELECT")
    /\ UNCHANGED <<idx, mainRes>>
    /\ UNCHANGED txVars

\* Rollback with the bug of committing where the rollback was meant
RollbackCommits ==
    /\ pc = "final"
    /\ Examples[idx] = "explicit_rollback_example"
    /\ ledger' = Append(ledger, "commit")
    /\ handle' = [handle EXCEPT !.state = "committed"]
    /\ table' = CommitTable(handle)
    /\ \/ ret' = RetOk
       \/ ret' = RetErr("rollback_err")
    /\ pc' = "returned"
    /\ UNCHANGED <<idx, bodyRes, mainRes>>
    /\ UNCHANGED txVars

\* explicit_rollback_example: transaction.rollback().await?; Ok(())
Rollback ==
    /\ pc = "final"
    /\ Examples[idx] = "explicit_rollback_example"
    /\ ledger' = Append(ledger, "rollback")
    /\ handle' = [handle EXCEPT !.state = "rolledback"]
    /\ table' = RollbackTable(handle)
    /\ \/ ret' = RetOk
       \/ ret' = RetErr("rollback_err")
    /\ pc' = "returned"
    /\ UNCHANGED <<idx, bodyRes, mainRes>>
    /\ UNCHANGED txVars

\* implicit_rollback_example: Ok(()) with the transaction dropped at the end of scope
ImplicitDrop ==
    /\ pc = "final"
    /\ Examples[idx] = "implicit_rollback_example"
    /\ ledger' = Append(ledger, "drop")
    /\ handle' = [handle EXCEPT !.state = "dropped"]
    /\ table' = DropTable(handle)
    /\ ret' = RetOk
    /\ pc' = "returned"
    /\ UNCHANGED <<idx, bodyRes, mainRes>>
    /\ UNCHANGED txVars

\* CommitFinal with the bug of a forgotten commit: the handle is only dropped
CommitFinalForgotten ==
    /\ ledger' = Append(ledger, "drop")
    /\ handle' = [handle EXCEPT !.state = "dropped"]
    /\ table' = DropTable(handle)
    /\ ret' = RetOk

\* CommitFinal with the bug of an ignored commit result: Ok(()) whatever commit said
CommitFinalSwallow ==
    /\ ledger' = Append(ledger, "commit")
    /\ \/ /\ handle' = [handle EXCEPT !.state = "committed"]
          /\ table' = CommitTable(handle)
          /\ ret' = RetOk
       \/ /\ handle' = [handle EXCEPT !.state = "commit_failed"]
          /\ table' = RollbackTable(handle)
          /\ ret' = RetOk

\* what commit_example does once insert_and_verify succeeded:
\* transaction.commit().await?; Ok(())
CommitFinal ==
    /\ ledger' = Append(ledger, "commit")
    /\ \/ /\ handle' = [handle EXCEPT !.state = "committed"]
          /\ table' = CommitTable(handle)
          /\ ret' = RetOk
       \/ /\ handle' = [handle EXCEPT !.state = "commit_failed"]
          /\ table' = RollbackTable(handle)
          /\ ret' = RetErr("commit_err")

Commit ==
    /\ pc = "final"
    /\ Examples[idx] = "commit_example"
    /\ CommitFinal
    /\ pc' = "returned"
    /\ UNCHANGED <<idx, bodyRes, mainRes>>
    /\ UNCHANGED txVars

\* main: example(&pool, test_id).await?;
MainAfterExample ==
    /\ pc = "returned"
    /\ \/ /\ ret.ok
          /\ pc' = "check"
          /\ UNCHANGED mainRes
       \/ /\ ~ret.ok
          /\ mainRes' = ret
          /\ pc' = "done"
    /\ UNCHANGED <<idx, table, handle, ledger, bodyRes, ret>>
    /\ UNCHANGED txVars

\* the assertion main makes on inserted_todo after each example
Expected(i) == IF Examples[i] = "commit_example" THEN "is_ok" ELSE "is_err"

\* main: SELECT FROM todos WHERE id = test_id .fetch_one(&pool).await; assert!(...)
\* found is whether fetch_one returned Ok: never without the row, and not always with it
MainCheck ==
    /\ pc = "check"
    /\ \E found \in BOOLEAN :
         /\ found => TestId \in table
         /\ IF found = (Expected(idx) = "is_ok")
            THEN IF idx < Len(Examples)
                 THEN /\ idx' = idx + 1
                      /\ pc' = "begin"
                      /\ handle' = NoHandle
                      /\ ledger' = <<>>
                      /\ bodyRes' = RetNone
                      /\ ret' = RetNone
                      /\ UNCHANGED mainRes
                 ELSE /\ mainRes' = RetOk
                      /\ pc' = "done"
                      /\ UNCHANGED <<idx, handle, ledger, bodyRes, ret>>
            ELSE /\ pc' = "panic"
                 /\ UNCHANGED <<idx, handle, ledger, bodyRes, ret, mainRes>>
    /\ UNCHANGED table
    /\ UNCHANGED txVars

\* the transaction value of the idle algebra part
IdleTx == [op |-> "leaf", id |-> 0]
\* no call expression is being type-checked
NoCall == [op |-> "none"]

InitCheckIdle ==
    /\ call = NoCall
    /\ accepted = "none"

InitTxIdle ==
    /\ tx = IdleTx
    /\ phase = "idle"
    /\ st = [ctx |-> <<>>, calls |-> <<>>]
    /\ result = [ok |-> FALSE]
    /\ runs = 0

Init == InitRunner /\ InitTxIdle /\ InitCheckIdle

Next ==
    \/ MainDelete
    \/ Begin
    \/ Insert
    \/ Select
    \/ Rollback
    \/ ImplicitDrop
    \/ Commit
    \/ MainAfterExample
    \/ MainCheck

Spec == Init /\ [][Next]_vars

(***************************************************************************)
(* Claims about the transaction examples (specification Spec)              *)
(***************************************************************************)
\* the current example has returned and insert_and_verify returned Ok / Err in it
BodySucceeded == ret.set /\ bodyRes = RetOk
BodyFailed == ret.set /\ bodyRes.set /\ ~bodyRes.ok

\* C1 as stated: in every example run whose body (insert_and_verify) returned
\* Success, the handle got exactly one commit call and no rollback call by the
\* time the run returned.
C1_CommitLawEveryRun ==
    BodySucceeded => (Count("commit") = 1 /\ Count("rollback") = 0)

\* C1 amended: in commit_example, when the body returned Success, the handle got
\* exactly one commit call and no rollback call by the time the run returned.
C1_CommitLaw ==
    (BodySucceeded /\ Examples[idx] = "commit_example")
        => (Count("commit") = 1 /\ Count("rollback") = 0)

C1_Witness ==
    /\ BodySucceeded
    /\ Examples[idx] = "commit_example"
    /\ ledger = <<"begin", "exec INSERT", "exec SELECT", "commit">>

\* C2 as stated: in every example run whose body returned Failure, the handle got
\* exactly one rollback call and no commit call by the time the run returned.
C2_RollbackLawExplicitCall ==
    BodyFailed => (Count("rollback") = 1 /\ Count("commit") = 0)

\* C2 amended: in every example run whose body returned Failure, the handle got no
\* commit call and no rollback call: `?` returned early and the handle was dropped
\* uncommitted, exactly once and as the last thing done with it.
C2_RollbackLaw ==
    BodyFailed =>
        /\ Count("commit") = 0
        /\ Count("rollback") = 0
        /\ Count("drop") = 1
        /\ ledger[Len(ledger)] = "drop"
        /\ handle.state = "dropped"

C2_Witness ==
    /\ BodyFailed
    /\ Examples[idx] = "explicit_rollback_example"
    /\ ledger = <<"begin", "exec INSERT", "exec SELECT", "drop">>

\* C3: once an example run has ended, a row written inside it is visible outside
\* the transaction exactly when the run issued commit and returned Success; after
\* an explicit rollback and after a drop without commit no write of the run is
\* visible, so none is after explicit_rollback_example or implicit_rollback_example.
C3_NoPartialCommit ==
    ret.set =>
        /\ \A r \in handle.writes :
             (r \in table) <=> (Count("commit") = 1 /\ ret = RetOk)
        /\ (Count("rollback") = 1 \/ Count("drop") = 1) => handle.writes \cap table = {}
        /\ Examples[idx] # "commit_example" => handle.writes \cap table = {}

C3_Witness ==
    /\ ret = RetOk
    /\ handle.writes = {TestId}
    /\ TestId \in table
    /\ Count("commit") = 1

\* C4: when pool.begin() fails, the run returns Failure carrying the acquisition
\* error, no statement is executed and neither commit nor rollback is issued.
C4_AcquisitionFailure ==
    (ret.set /\ Count("begin_failed") = 1) =>
        /\ ret = RetErr("begin_err")
        /\ ledger = <<"begin_failed">>
        /\ handle = NoHandle
        /\ ~bodyRes.set

C4_Witness ==
    /\ ret = RetErr("begin_err")
    /\ Examples[idx] = "commit_example"
    /\ Count("begin_failed") = 1

Finals == {"commit", "rollback", "drop"}
Statements == <<"exec INSERT", "exec SELECT">>

\* C20: finalization is terminal: in the three examples a handle is never both
\* committed and rolled back; commit and rollback are issued only after begin
\* succeeded and both statements of insert_and_verify finished; and once the
\* handle was committed, rolled back or dropped nothing more is done with it
C20_FinalizationTerminal ==
    /\ ~(Count("commit") >= 1 /\ Count("rollback") >= 1)
    /\ Count("commit") + Count("rollback") + Count("drop") <= 1
    /\ \A i \in DOMAIN ledger :
          ledger[i] \in {"commit", "rollback"} =>
              SubSeq(ledger, 1, i - 1) = <<"begin">> \o Statements
    /\ \A i \in DOMAIN ledger : ledger[i] \in Finals => i = Len(ledger)
    /\ handle.state \in {"committed", "commit_failed", "rolledback", "dropped"} =>
          /\ pc \notin {"insert", "select", "final"}
          /\ ledger[Len(ledger)] \in Finals
    /\ handle.state \in {"committed", "commit_failed"} => Count("rollback") = 0
    /\ handle.state = "rolledback" => Count("commit") = 0

C20_Witness ==
    /\ ledger = <<"begin", "exec INSERT", "exec SELECT", "commit">>
    /\ Examples[idx] = "commit_example"
    /\ handle.state = "committed"
    /\ pc = "returned"

\* the explicit rollback, and a handle dropped by `?` in the middle of the body
C20_WitnessRollback ==
    /\ ledger = <<"begin", "exec INSERT", "exec SELECT", "rollback">>
    /\ Examples[idx] = "explicit_rollback_example"
    /\ handle.state = "rolledback"

C20_WitnessDropped ==
    /\ ledger = <<"begin", "exec INSERT", "drop">>
    /\ handle.state = "dropped"
    /\ pc = "returned"

(***************************************************************************)
(* Part 2: the Tx combinator algebra                                       *)
(***************************************************************************)
\* payloads: an integer, or the tuple a join builds
Scalar(n) == [tag |-> "int", n |-> n, parts |-> <<>>]
Tuple(vs) == [tag |-> "tuple", n |-> 0, parts |-> vs]
NoVal == [tag |-> "none", n |-> 0, parts |-> <<>>]

\* Result<T, E>
Ok(v) == [ok |-> TRUE, val |-> v, err |-> "-"]
Err(e) == [ok |-> FALSE, val |-> NoVal, err |-> e]

\* a closure FnOnce(&mut Ctx) -> Result<T, E>: executing it is recorded in ctx
Leaf(i, r) == [op |-> "leaf", id |-> i, res |-> r]

\* the combinator structs
Map(tx1, f) == [op |-> "map", tx1 |-> tx1, f |-> f]
AndThen(tx1, f, k) == [op |-> "and_then", tx1 |-> tx1, f |-> f, k |-> k]
Then(tx1, f, k) == [op |-> "then", tx1 |-> tx1, f |-> f, k |-> k]
OrElse(tx1, f, k) == [op |-> "or_else", tx1 |-> tx1, f |-> f, k |-> k]
Join(tx1, tx2) == [op |-> "join", tx1 |-> tx1, tx2 |-> tx2]
Join3(tx1, tx2, tx3) == [op |-> "join3", tx1 |-> tx1, tx2 |-> tx2, tx3 |-> tx3]
Join4(tx1, tx2, tx3, tx4) ==
    [op |-> "join4", tx1 |-> tx1, tx2 |-> tx2, tx3 |-> tx3, tx4 |-> tx4]
MapErr(tx1, f) == [op |-> "map_err", tx1 |-> tx1, f |-> f]
TryMap(tx1, f) == [op |-> "try_map", tx1 |-> tx1, f |-> f]
Recover(tx1, f) == [op |-> "recover", tx1 |-> tx1, f |-> f]
TryRecover(tx1, f) == [op |-> "try_recover", tx1 |-> tx1, f |-> f]
Abort(tx1, f) == [op |-> "abort", tx1 |-> tx1, f |-> f]
TryAbort(tx1, f) == [op |-> "try_abort", tx1 |-> tx1, f |-> f]

\* the user functions the combinators are given
ItemFns == {"succ", "unit"}           \* FnOnce(Item) -> T
TryFns == {"keep", "reject"}          \* FnOnce(Item) -> Result<T, Err>
ErrFns == {"tag"}                     \* FnOnce(Err) -> E
RecoverFns == {"zero"}                \* FnOnce(Err) -> Item
TryRecoverFns == {"zero", "escalate"} \* FnOnce(Err) -> Result<Item, E>
AbortFns == {"abort"}                 \* FnOnce(Item) -> Err
ContFns == {"const", "echo"}          \* FnOnce(..) -> Tx2

ApplyItemFn(f, v) ==
    IF f = "succ"
    THEN IF v.tag = "int" THEN Scalar(v.n + 1) ELSE Tuple(<<v>>)
    ELSE Scalar(0)
ApplyTryFn(f, v) == IF f = "keep" THEN Ok(v) ELSE Err("rejected")
ApplyErrFn(f, e) == IF e = "e1" THEN "tagged_e1" ELSE "tagged"
ApplyRecoverFn(f, e) == Scalar(0)
ApplyTryRecoverFn(f, e) == IF f = "zero" THEN Ok(Scalar(0)) ELSE Err("escalated")
ApplyAbortFn(f, v) == IF v = Scalar(1) THEN "aborted_1" ELSE "aborted"
\* the transaction a continuation returns: "const" is |_| k, "echo" is a closure
\* over its argument, a leaf like k that returns the outcome r built from it
ApplyCont(f, k, r) == IF f = "const" THEN k ELSE [k EXCEPT !.res = r]

\* a user function is called: recorded with the number of leaves executed so far
Call(s, op, f) == [s EXCEPT !.calls = Append(@, [op |-> op, f |-> f, at |-> Len(s.ctx)])]

RECURSIVE Run(_, _)

\* impl Tx<Ctx> for F: self(ctx)
LeafRun(t, s) == [res |-> t.res, st |-> [s EXCEPT !.ctx = Append(@, t.id)]]

\* MapRun with the bug of the Ok arm not applying f: Ok(x) => Ok(x)
MapRunIdentity(t, s) ==
    LET r == Run(t.tx1, s)
    IN  IF r.res.ok
        THEN [res |-> Ok(r.res.val), st |-> r.st]
        ELSE [res |-> Err(r.res.err), st |-> r.st]

MapRun(t, s) ==
    LET r == Run(t.tx1, s)
    IN  IF r.res.ok
        THEN [res |-> Ok(ApplyItemFn(t.f, r.res.val)), st |-> Call(r.st, "map", t.f)]
        ELSE [res |-> Err(r.res.err), st |-> r.st]

\* AndThenRun with the bug of running the continuation on Err as well
AndThenRunAlways(t, s) ==
    LET r == Run(t.tx1, s)
    IN  Run(ApplyCont(t.f, t.k, r.res), Call(r.st, "and_then", t.f))

AndThenRun(t, s) ==
    LET r == Run(t.tx1, s)
    IN  IF r.res.ok
        THEN Run(ApplyCont(t.f, t.k, Ok(r.res.val)), Call(r.st, "and_then", t.f))
        ELSE [res |-> Err(r.res.err), st |-> r.st]

\* ThenRun with the bug of and_then's short circuit: f is not called on Err
ThenRunShortCircuit(t, s) ==
    LET r == Run(t.tx1, s)
    IN  IF r.res.ok
        THEN Run(ApplyCont(t.f, t.k, r.res), Call(r.st, "then", t.f))
        ELSE [res |-> Err(r.res.err), st |-> r.st]

ThenRun(t, s) ==
    LET r == Run(t.tx1, s)
    IN  Run(ApplyCont(t.f, t.k, r.res), Call(r.st, "then", t.f))

\* OrElseRun with the bug of running the fallback on the context as it was before
\* the source ran
OrElseRunFreshCtx(t, s) ==
    LET r == Run(t.tx1, s)
    IN  IF r.res.ok
        THEN [res |-> Ok(r.res.val), st |-> r.st]
        ELSE Run(ApplyCont(t.f, t.k, Err(r.res.err)), Call(s, "or_else", t.f))

\* OrElseRun with the bug of swallowing a failure of the fallback
OrElseRunSwallow(t, s) ==
    LET r == Run(t.tx1, s)
        r2 == Run(ApplyCont(t.f, t.k, Err(r.res.err)), Call(r.st, "or_else", t.f))
    IN  IF r.res.ok
        THEN [res |-> Ok(r.res.val), st |-> r.st]
        ELSE IF r2.res.ok THEN r2 ELSE [res |-> Ok(NoVal), st |-> r2.st]

OrElseRun(t, s) ==
    LET r == Run(t.tx1, s)
    IN  IF r.res.ok
        THEN [res |-> Ok(r.res.val), st |-> r.st]
        ELSE Run(ApplyCont(t.f, t.k, Err(r.res.err)), Call(r.st, "or_else", t.f))

\* the first Err of a tuple of results, in the order of the match arms
FirstErr(rs) == rs[CHOOSE i \in DOMAIN rs : ~rs[i].ok /\ \A j \in 1..(i - 1) : rs[j].ok]
AllOk(rs) == \A i \in DOMAIN rs : rs[i].ok
Vals(rs) == [i \in DOMAIN rs |-> rs[i].val]

\* JoinRun with the bug of not running tx2 once tx1 failed
JoinRunShortCircuit(t, s) ==
    LET r1 == Run(t.tx1, s)
        r2 == Run(t.tx2, r1.st)
    IN  IF ~r1.res.ok
        THEN [res |-> Err(r1.res.err), st |-> r1.st]
        ELSE IF r2.res.ok
             THEN [res |-> Ok(Tuple(<<r1.res.val, r2.res.val>>)), st |-> r2.st]
             ELSE [res |-> Err(r2.res.err), st |-> r2.st]

JoinRun(t, s) ==
    LET r1 == Run(t.tx1, s)
        r2 == Run(t.tx2, r1.st)
        rs == <<r1.res, r2.res>>
    IN  IF AllOk(rs)
        THEN [res |-> Ok(Tuple(Vals(rs))), st |-> r2.st]
        ELSE [res |-> Err(FirstErr(rs).err), st |-> r2.st]

\* the last Err of a tuple of results
LastErr(rs) ==
    rs[CHOOSE i \in DOMAIN rs : ~rs[i].ok /\ \A j \in (i + 1)..Len(rs) : rs[j].ok]

\* Join3Run with the bug of match arms in the reverse order: the last Err wins
Join3RunLastErr(t, s) ==
    LET r1 == Run(t.tx1, s)
        r2 == Run(t.tx2, r1.st)
        r3 == Run(t.tx3, r2.st)
        rs == <<r1.res, r2.res, r3.res>>
    IN  IF AllOk(rs)
        THEN [res |-> Ok(Tuple(Vals(rs))), st |-> r3.st]
        ELSE [res |-> Err(LastErr(rs).err), st |-> r3.st]

Join3Run(t, s) ==
    LET r1 == Run(t.tx1, s)
        r2 == Run(t.tx2, r1.st)
        r3 == Run(t.tx3, r2.st)
        rs == <<r1.res, r2.res, r3.res>>
    IN  IF AllOk(rs)
        THEN [res |-> Ok(Tuple(Vals(rs))), st |-> r3.st]
        ELSE [res |-> Err(FirstErr(rs).err), st |-> r3.st]

Join4Run(t, s) ==
    LET r1 == Run(t.tx1, s)
        r2 == Run(t.tx2, r1.st)
        r3 == Run(t.tx3, r2.st)
        r4 == Run(t.tx4, r3.st)
        rs == <<r1.res, r2.res, r3.res, r4.res>>
    IN  IF AllOk(rs)
        THEN [res |-> Ok(Tuple(Vals(rs))), st |-> r4.st]
        ELSE [res |-> Err(FirstErr(rs).err), st |-> r4.st]

MapErrRun(t, s) ==
    LET r == Run(t.tx1, s)
    IN  IF r.res.ok
        THEN [res |-> Ok(r.res.val), st |-> r.st]
        ELSE [res |-> Err(ApplyErrFn(t.f, r.res.err)), st |-> Call(r.st, "map_err", t.f)]

TryMapRun(t, s) ==
    LET r == Run(t.tx1, s)
    IN  IF r.res.ok
        THEN [res |-> ApplyTryFn(t.f, r.res.val), st |-> Call(r.st, "try_map", t.f)]
        ELSE [res |-> Err(r.res.err), st |-> r.st]

RecoverRun(t, s) ==
    LET r == Run(t.tx1, s)
    IN  IF r.res.ok
        THEN [res |-> Ok(r.res.val), st |-> r.st]
        ELSE [res |-> Ok(ApplyRecoverFn(t.f, r.res.err)), st |-> Call(r.st, "recover", t.f)]

\* TryRecoverRun with the bug of a retry: the source is run again before f
TryRecoverRunRetry(t, s) ==
    LET r == Run(t.tx1, s)
        r2 == Run(t.tx1, r.st)
    IN  IF r.res.ok
        THEN [res |-> Ok(r.res.val), st |-> r.st]
        ELSE [res |-> ApplyTryRecoverFn(t.f, r2.res.err),
              st |-> Call(r2.st, "try_recover", t.f)]

TryRecoverRun(t, s) ==
    LET r == Run(t.tx1, s)
    IN  IF r.res.ok
        THEN [res |-> Ok(r.res.val), st |-> r.st]
        ELSE [res |-> ApplyTryRecoverFn(t.f, r.res.err),
              st |-> Call(r.st, "try_recover", t.f)]

\* AbortRun with the bug of the Err arm of recover: Err(e) => Ok(..)
AbortRunRecovers(t, s) ==
    LET r == Run(t.tx1, s)
    IN  IF r.res.ok
        THEN [res |-> Err(ApplyAbortFn(t.f, r.res.val)), st |-> Call(r.st, "abort", t.f)]
        ELSE [res |-> Ok(Scalar(0)), st |-> Call(r.st, "abort", t.f)]

\* AbortRun with the bug of letting a Success through: Ok(t) => Ok(t)
AbortRunPassthrough(t, s) ==
    LET r == Run(t.tx1, s)
    IN  IF r.res.ok
        THEN [res |-> Ok(r.res.val), st |-> r.st]
        ELSE [res |-> Err(r.res.err), st |-> r.st]

AbortRun(t, s) ==
    LET r == Run(t.tx1, s)
    IN  IF r.res.ok
        THEN [res |-> Err(ApplyAbortFn(t.f, r.res.val)), st |-> Call(r.st, "abort", t.f)]
        ELSE [res |-> Err(r.res.err), st |-> r.st]

TryAbortRun(t, s) ==
    LET r == Run(t.tx1, s)
    IN  IF r.res.ok
        THEN [res |-> ApplyTryFn(t.f, r.res.val), st |-> Call(r.st, "try_abort", t.f)]
        ELSE [res |-> Err(r.res.err), st |-> r.st]

(***************************************************************************)
(* The free functions: each returns a closure move |ctx| .. that captures   *)
(* its arguments; the closure is a Tx through impl Tx<Ctx> for F            *)
(***************************************************************************)
map(tx1, f) == [op |-> "fn_map", tx1 |-> tx1, f |-> f]
and_then(tx1, f, k) == [op |-> "fn_and_then", tx1 |-> tx1, f |-> f, k |-> k]
then(tx1, f, k) == [op |-> "fn_then", tx1 |-> tx1, f |-> f, k |-> k]
or_else(tx1, f, k) == [op |-> "fn_or_else", tx1 |-> tx1, f |-> f, k |-> k]
join(tx1, tx2) == [op |-> "fn_join", tx1 |-> tx1, tx2 |-> tx2]
join3(tx1, tx2, tx3) == [op |-> "fn_join3", tx1 |-> tx1, tx2 |-> tx2, tx3 |-> tx3]
join4(tx1, tx2, tx3, tx4) ==
    [op |-> "fn_join4", tx1 |-> tx1, tx2 |-> tx2, tx3 |-> tx3, tx4 |-> tx4]
map_err(tx1, f) == [op |-> "fn_map_err", tx1 |-> tx1, f |-> f]
try_map(tx1, f) == [op |-> "fn_try_map", tx1 |-> tx1, f |-> f]
recover(tx1, f) == [op |-> "fn_recover", tx1 |-> tx1, f |-> f]
try_recover(tx1, f) == [op |-> "fn_try_recover", tx1 |-> tx1, f |-> f]
abort(tx1, f) == [op |-> "fn_abort", tx1 |-> tx1, f |-> f]
try_abort(tx1, f) == [op |-> "fn_try_abort", tx1 |-> tx1, f |-> f]

\* the bodies of the closures, t being the captured environment
map_closure(t, s) ==
    LET r == Run(t.tx1, s)
    IN  IF r.res.ok
        THEN [res |-> Ok(ApplyItemFn(t.f, r.res.val)), st |-> Call(r.st, "map", t.f)]
        ELSE [res |-> Err(r.res.err), st |-> r.st]

and_then_closure(t, s) ==
    LET r == Run(t.tx1, s)
    IN  IF r.res.ok
        THEN Run(ApplyCont(t.f, t.k, Ok(r.res.val)), Call(r.st, "and_then", t.f))
        ELSE [res |-> Err(r.res.err), st |-> r.st]

then_closure(t, s) ==
    LET r == Run(t.tx1, s)
    IN  Run(ApplyCont(t.f, t.k, r.res), Call(r.st, "then", t.f))

or_else_closure(t, s) ==
    LET r == Run(t.tx1, s)
    IN  IF r.res.ok
        THEN [res |-> Ok(r.res.val), st |-> r.st]
        ELSE Run(ApplyCont(t.f, t.k, Err(r.res.err)), Call(r.st, "or_else", t.f))

join_closure(t, s) ==
    LET r1 == Run(t.tx1, s)
        r2 == Run(t.tx2, r1.st)
        rs == <<r1.res, r2.res>>
    IN  IF AllOk(rs)
        THEN [res |-> Ok(Tuple(Vals(rs))), st |-> r2.st]
        ELSE [res |-> Err(FirstErr(rs).err), st |-> r2.st]

join3_closure(t, s) ==
    LET r1 == Run(t.tx1, s)
        r2 == Run(t.tx2, r1.st)
        r3 == Run(t.tx3, r2.st)
        rs == <<r1.res, r2.res, r3.res>>
    IN  IF AllOk(rs)
        THEN [res |-> Ok(Tuple(Vals(rs))), st |-> r3.st]
        ELSE [res |-> Err(FirstErr(rs).err), st |-> r3.st]

join4_closure(t, s) ==
    LET r1 == Run(t.tx1, s)
        r2 == Run(t.tx2, r1.st)
        r3 == Run(t.tx3, r2.st)
        r4 == Run(t.tx4, r3.st)
        rs == <<r1.res, r2.res, r3.res, r4.res>>
    IN  IF AllOk(rs)
        THEN [res |-> Ok(Tuple(Vals(rs))), st |-> r4.st]
        ELSE [res |-> Err(FirstErr(rs).err), st |-> r4.st]

map_err_closure(t, s) ==
    LET r == Run(t.tx1, s)
    IN  IF r.res.ok
        THEN [res |-> Ok(r.res.val), st |-> r.st]
        ELSE [res |-> Err(ApplyErrFn(t.f, r.res.err)), st |-> Call(r.st, "map_err", t.f)]

try_map_closure(t, s) ==
    LET r == Run(t.tx1, s)
    IN  IF r.res.ok
        THEN [res |-> ApplyTryFn(t.f, r.res.val), st |-> Call(r.st, "try_map", t.f)]
        ELSE [res |-> Err(r.res.err), st |-> r.st]

recover_closure(t, s) ==
    LET r == Run(t.tx1, s)
    IN  IF r.res.ok
        THEN [res |-> Ok(r.res.val), st |-> r.st]
        ELSE [res |-> Ok(ApplyRecoverFn(t.f, r.res.err)), st |-> Call(r.st, "recover", t.f)]

try_recover_closure(t, s) ==
    LET r == Run(t.tx1, s)
    IN  IF r.res.ok
        THEN [res |-> Ok(r.res.val), st |-> r.st]
        ELSE [res |-> ApplyTryRecoverFn(t.f, r.res.err),
              st |-> Call(r.st, "try_recover", t.f)]

abort_closure(t, s) ==
    LET r == Run(t.tx1, s)
    IN  IF r.res.ok
        THEN [res |-> Err(ApplyAbortFn(t.f, r.res.val)), st |-> Call(r.st, "abort", t.f)]
        ELSE [res |-> Err(r.res.err), st |-> r.st]

try_abort_closure(t, s) ==
    LET r == Run(t.tx1, s)
    IN  IF r.res.ok
        THEN [res |-> ApplyTryFn(t.f, r.res.val), st |-> Call(r.st, "try_abort", t.f)]
        ELSE [res |-> Err(r.res.err), st |-> r.st]

\* Tx::run, dispatched on the implementing type
Run(t, s) ==
    CASE t.op = "leaf" -> LeafRun(t, s)
      [] t.op = "map" -> MapRun(t, s)
      [] t.op = "and_then" -> AndThenRun(t, s)
      [] t.op = "then" -> ThenRun(t, s)
      [] t.op = "or_else" -> OrElseRun(t, s)
      [] t.op = "join" -> JoinRun(t, s)
      [] t.op = "join3" -> Join3Run(t, s)
      [] t.op = "join4" -> Join4Run(t, s)
      [] t.op = "map_err" -> MapErrRun(t, s)
      [] t.op = "try_map" -> TryMapRun(t, s)
      [] t.op = "recover" -> RecoverRun(t, s)
      [] t.op = "try_recover" -> TryRecoverRun(t, s)
      [] t.op = "abort" -> AbortRun(t, s)
      [] t.op = "try_abort" -> TryAbortRun(t, s)
      [] t.op = "fn_map" -> map_closure(t, s)
      [] t.op = "fn_and_then" -> and_then_closure(t, s)
      [] t.op = "fn_then" -> then_closure(t, s)
      [] t.op = "fn_or_else" -> or_else_closure(t, s)
      [] t.op = "fn_join" -> join_closure(t, s)
      [] t.op = "fn_join3" -> join3_closure(t, s)
      [] t.op = "fn_join4" -> join4_closure(t, s)
      [] t.op = "fn_map_err" -> map_err_closure(t, s)
      [] t.op = "fn_try_map" -> try_map_closure(t, s)
      [] t.op = "fn_recover" -> recover_closure(t, s)
      [] t.op = "fn_try_recover" -> try_recover_closure(t, s)
      [] t.op = "fn_abort" -> abort_closure(t, s)
      [] t.op = "fn_try_abort" -> try_abort_closure(t, s)

\* number of combinators applied on top of the first leaf
RECURSIVE Depth(_)
Depth(t) == IF t.op = "leaf" THEN 0 ELSE 1 + Depth(t.tx1)

\* the leaves user code composes: the i-th source of a composition returns
\* Ok(i) or fails with its own error
ErrNames == <<"e1", "e2", "e3", "e4", "e5", "e6", "e7", "e8", "e9">>
Leaves(i) == {Leaf(i, Ok(Scalar(i))), Leaf(i, Err(ErrNames[i]))}
\* the leaf a continuation returns: its id tells at which level of the
\* composition the continuation was given
ContLeaves == Leaves(5 + Depth(tx))

CanApply == phase = "build" /\ Depth(tx) < MaxDepth

Tx_map ==
    /\ CanApply
    /\ \E f \in ItemFns : tx' = Map(tx, f)
    /\ UNCHANGED <<phase, st, result, runs>>
    /\ UNCHANGED <<runnerVars, checkVars>>

\* Tx_and_then with the bug of an eager combinator: the source is run and f is
\* called while the composition is built
Tx_and_thenEager ==
    /\ CanApply
    /\ \E f \in ContFns, k \in ContLeaves :
          /\ tx' = AndThen(tx, f, k)
          /\ st' = Call(Run(tx, st).st, "and_then", f)
    /\ UNCHANGED <<phase, result, runs>>
    /\ UNCHANGED <<runnerVars, checkVars>>

Tx_and_then ==
    /\ CanApply
    /\ \E f \in ContFns, k \in ContLeaves : tx' = AndThen(tx, f, k)
    /\ UNCHANGED <<phase, st, result, runs>>
    /\ UNCHANGED <<runnerVars, checkVars>>

Tx_then ==
    /\ CanApply
    /\ \E f \in ContFns, k \in ContLeaves : tx' = Then(tx, f, k)
    /\ UNCHANGED <<phase, st, result, runs>>
    /\ UNCHANGED <<runnerVars, checkVars>>

Tx_or_else ==
    /\ CanApply
    /\ \E f \in ContFns, k \in ContLeaves : tx' = OrElse(tx, f, k)
    /\ UNCHANGED <<phase, st, result, runs>>
    /\ UNCHANGED <<runnerVars, checkVars>>

Tx_join ==
    /\ CanApply
    /\ \E tx2 \in Leaves(2) : tx' = Join(tx, tx2)
    /\ UNCHANGED <<phase, st, result, runs>>
    /\ UNCHANGED <<runnerVars, checkVars>>

Tx_join3 ==
    /\ CanApply
    /\ \E tx2 \in Leaves(2), tx3 \in Leaves(3) : tx' = Join3(tx, tx2, tx3)
    /\ UNCHANGED <<phase, st, result, runs>>
    /\ UNCHANGED <<runnerVars, checkVars>>

Tx_join4 ==
    /\ CanApply
    /\ \E tx2 \in Leaves(2), tx3 \in Leaves(3), tx4 \in Leaves(4) :
         tx' = Join4(tx, tx2, tx3, tx4)
    /\ UNCHANGED <<phase, st, result, runs>>
    /\ UNCHANGED <<runnerVars, checkVars>>

Tx_map_err ==
    /\ CanApply
    /\ \E f \in ErrFns : tx' = MapErr(tx, f)
    /\ UNCHANGED <<phase, st, result, runs>>
    /\ UNCHANGED <<runnerVars, checkVars>>

Tx_try_map ==
    /\ CanApply
    /\ \E f \in TryFns : tx' = TryMap(tx, f)
    /\ UNCHANGED <<phase, st, result, runs>>
    /\ UNCHANGED <<runnerVars, checkVars>>

Tx_recover ==
    /\ CanApply
    /\ \E f \in RecoverFns : tx' = Recover(tx, f)
    /\ UNCHANGED <<phase, st, result, runs>>
    /\ UNCHANGED <<runnerVars, checkVars>>

Tx_try_recover ==
    /\ CanApply
    /\ \E f \in TryRecoverFns : tx' = TryRecover(tx, f)
    /\ UNCHANGED <<phase, st, result, runs>>
    /\ UNCHANGED <<runnerVars, checkVars>>

Tx_abort ==
    /\ CanApply
    /\ \E f \in AbortFns : tx' = Abort(tx, f)
    /\ UNCHANGED <<phase, st, result, runs>>
    /\ UNCHANGED <<runnerVars, checkVars>>

Tx_try_abort ==
    /\ CanApply
    /\ \E f \in TryFns : tx' = TryAbort(tx, f)
    /\ UNCHANGED <<phase, st, result, runs>>
    /\ UNCHANGED <<runnerVars, checkVars>>

\* Tx_run with the bug of a receiver &self: the value is still there after run
Tx_runBorrowed ==
    /\ phase \in {"build", "ran"}
    /\ runs < MaxRuns
    /\ result' = Run(tx, st).res
    /\ st' = Run(tx, st).st
    /\ phase' = "ran"
    /\ runs' = runs + 1
    /\ UNCHANGED tx
    /\ UNCHANGED <<runnerVars, checkVars>>

\* fn run(self, ctx: &mut Ctx): the composition is consumed and run on ctx
Tx_run ==
    /\ phase = "build"
    /\ result' = Run(tx, st).res
    /\ st' = Run(tx, st).st
    /\ phase' = "ran"
    /\ runs' = runs + 1
    /\ UNCHANGED tx
    /\ UNCHANGED <<runnerVars, checkVars>>

InitRunnerIdle ==
    /\ pc = "idle"
    /\ idx = 0
    /\ table = {}
    /\ handle = NoHandle
    /\ ledger = <<>>
    /\ bodyRes = RetNone
    /\ ret = RetNone
    /\ mainRes = RetNone

\* the context before run: nothing executed, nothing called
St0 == [ctx |-> <<>>, calls |-> <<>>]

InitTx ==
    /\ InitRunnerIdle
    /\ tx \in Leaves(1)
    /\ phase = "build"
    /\ st = St0
    /\ result = Err("-")
    /\ runs = 0
    /\ InitCheckIdle

NextTx ==
    \/ Tx_map
    \/ Tx_and_then
    \/ Tx_then
    \/ Tx_or_else
    \/ Tx_join
    \/ Tx_join3
    \/ Tx_join4
    \/ Tx_map_err
    \/ Tx_try_map
    \/ Tx_recover
    \/ Tx_try_recover
    \/ Tx_abort
    \/ Tx_try_abort
    \/ Tx_run

SpecTx == InitTx /\ [][NextTx]_vars

(***************************************************************************)
(* Claims about the combinator algebra (specification SpecTx)              *)
(***************************************************************************)
\* the composition has been run; its outermost combinator is op
Ran(op) == phase = "ran" /\ tx.op = op
JoinOps == {"join", "join3", "join4"}

\* the sources of a join, join3 or join4, in the order they were given
Sources(t) ==
    CASE t.op = "join" -> <<t.tx1, t.tx2>>
      [] t.op = "join3" -> <<t.tx1, t.tx2, t.tx3>>
      [] t.op = "join4" -> <<t.tx1, t.tx2, t.tx3, t.tx4>>

\* the transactions ts run one after the other, each on the context the one before
\* left: their outcomes in order, and the context at the end
RECURSIVE RunSeq(_, _)
RunSeq(ts, s) ==
    IF ts = <<>>
    THEN [rs |-> <<>>, st |-> s]
    ELSE LET r == Run(Head(ts), s)
             rest == RunSeq(Tail(ts), r.st)
         IN  [rs |-> <<r.res>> \o rest.rs, st |-> rest.st]

\* the outcome of the source of the outermost combinator, run alone
SourceRun == Run(tx.tx1, St0)

\* C6: when the source t of t.and_then(k) yields Failure(e), the composition yields
\* Failure(e), k is not called and no leaf beyond those of t executes: the context
\* and the calls are those of t run alone.
C6_AndThenShortCircuit ==
    (Ran("and_then") /\ ~SourceRun.res.ok) =>
        /\ result = SourceRun.res
        /\ st = SourceRun.st

C6_Witness ==
    /\ Ran("and_then")
    /\ ~SourceRun.res.ok
    /\ tx.tx1.op = "try_map"
    /\ st.ctx = <<1>>

\* C7: join, join3 and join4 run each source exactly once on the same context, left
\* to right, each after the one before finished, whether or not a source to its
\* left failed: the context is the one the sources leave when run in sequence, the
\* first source's leaves followed by one execution of each further source.
C7_JoinRunsAllInOrder ==
    (phase = "ran" /\ tx.op \in JoinOps) =>
        /\ st = RunSeq(Sources(tx), St0).st
        /\ st.ctx = SourceRun.st.ctx
                        \o [i \in 1..(Len(Sources(tx)) - 1) |-> Sources(tx)[i + 1].id]
        /\ st.calls = SourceRun.st.calls

C7_Witness ==
    /\ Ran("join4")
    /\ ~SourceRun.res.ok
    /\ ~tx.tx2.res.ok
    /\ st.ctx = <<1, 2, 3, 4>>

\* C8: join, join3 and join4 yield Success of the tuple of the sources' values in
\* source order exactly when every source succeeds, and otherwise Failure(e) with e
\* the error of the leftmost failing source.
C8_JoinResult ==
    (phase = "ran" /\ tx.op \in JoinOps) =>
        LET rs == RunSeq(Sources(tx), St0).rs
        IN  IF \A i \in DOMAIN rs : rs[i].ok
            THEN result = Ok(Tuple([i \in DOMAIN rs |-> rs[i].val]))
            ELSE \E i \in DOMAIN rs :
                   /\ ~rs[i].ok
                   /\ \A j \in 1..(i - 1) : rs[j].ok
                   /\ result = Err(rs[i].err)

C8_Witness ==
    /\ Ran("join3")
    /\ SourceRun.res.ok
    /\ ~tx.tx2.res.ok
    /\ ~tx.tx3.res.ok
    /\ result = Err("e2")

\* C9: t.or_else(f) yields Success(t) without calling f when t yields Success(t);
\* when t yields Failure(e), f is called once with e after t finished and what it
\* returns runs on the context t left, its outcome being the result.
C9_OrElse ==
    Ran("or_else") =>
        LET r == SourceRun
            fb == IF tx.f = "const" THEN tx.k ELSE Leaf(tx.k.id, Err(r.res.err))
        IN  IF r.res.ok
            THEN result = r.res /\ st = r.st
            ELSE /\ st.calls = Append(r.st.calls,
                                      [op |-> "or_else", f |-> tx.f, at |-> Len(r.st.ctx)])
                 /\ st.ctx = Append(r.st.ctx, fb.id)
                 /\ result = fb.res

C9_Witness ==
    /\ Ran("or_else")
    /\ tx.tx1 = Leaf(1, Err("e1"))
    /\ result = Ok(Scalar(5))
    /\ st.ctx = <<1, 5>>

\* some source of the combinator t yields Failure when t is run
SourceFailed(t) ==
    IF t.op \in JoinOps
    THEN \E i \in 1..Len(Sources(t)) : ~RunSeq(Sources(t), St0).rs[i].ok
    ELSE ~Run(t.tx1, St0).res.ok

\* a Failure arises somewhere in the chain of combinators t / passes through a
\* combinator of ops that turns it into Success
RECURSIVE ChainFailed(_)
ChainFailed(t) == t.op # "leaf" /\ (SourceFailed(t) \/ ChainFailed(t.tx1))
RECURSIVE ChainRecovered(_, _)
ChainRecovered(t, ops) ==
    /\ t.op # "leaf"
    /\ \/ (t.op \in ops /\ SourceFailed(t) /\ Run(t, St0).res.ok)
       \/ ChainRecovered(t.tx1, ops)

PropagatingOps ==
    {"map", "try_map", "map_err", "and_then", "abort", "try_abort", "join", "join3", "join4"}

\* C10 as stated: map, try_map, map_err, and_then, then, abort, try_abort and join*
\* never turn a Failure of a source into Success, and a composition in which a
\* Failure arose yields Success only through or_else, recover or try_recover.
C10_OnlyRecoveryConsumes ==
    /\ (phase = "ran" /\ tx.op \in PropagatingOps \cup {"then"} /\ SourceFailed(tx))
           => ~result.ok
    /\ (phase = "ran" /\ result.ok /\ ChainFailed(tx))
           => ChainRecovered(tx, {"or_else", "recover", "try_recover"})

\* C10 amended: map, try_map, map_err, and_then, abort, try_abort and join* never
\* turn a Failure of a source into Success, and_then does not run its continuation
\* on it, and a composition in which a Failure arose yields Success only through
\* or_else, recover, try_recover or then (then hands the Failure to f and runs the
\* transaction f returns).
C10_PropagationPolicy ==
    /\ (phase = "ran" /\ tx.op \in PropagatingOps /\ SourceFailed(tx)) => ~result.ok
    /\ (Ran("and_then") /\ SourceFailed(tx)) => st = SourceRun.st
    /\ (phase = "ran" /\ result.ok /\ ChainFailed(tx))
           => ChainRecovered(tx, {"or_else", "recover", "try_recover", "then"})

C10_Witness ==
    /\ Ran("abort")
    /\ tx.tx1.op = "then"
    /\ ~Run(tx.tx1.tx1, St0).res.ok
    /\ SourceRun.res.ok
    /\ result = Err("aborted")

\* t.or_else(|_| u).or_else(|_| v) was run
RanLeftNested == Ran("or_else") /\ tx.f = "const" /\ tx.tx1.op = "or_else" /\ tx.tx1.f = "const"

\* t.or_else(|_| u.or_else(|_| v)) for the t, u, v of the composition tx
RightNested == OrElse(tx.tx1.tx1, "const", OrElse(tx.tx1.k, "const", tx.k))

\* C14: recovery associativity: t.or_else(|_| u).or_else(|_| v) and
\* t.or_else(|_| u.or_else(|_| v)) run from the same ctx return the same
\* outcome, execute the same leaves in the same order and call the same
\* fallback closures at the same points
C14_OrElseAssoc ==
    RanLeftNested =>
        /\ Run(RightNested, St0).res = result
        /\ Run(RightNested, St0).st.ctx = st.ctx
        /\ Run(RightNested, St0).st.calls = st.calls

C14_Witness ==
    /\ RanLeftNested
    /\ result = Err("e6")
    /\ st.ctx = <<1, 5, 6>>
    /\ Run(RightNested, St0).st.ctx = <<1, 5, 6>>

\* t fails and u recovers: v is not run in either nesting
C14_WitnessRecovered ==
    /\ RanLeftNested
    /\ result = Ok(Scalar(5))
    /\ st.ctx = <<1, 5>>

\* the leaves a composition holds, with the leaf each continuation returns
RECURSIVE LeafIds(_)
LeafIds(t) ==
    CASE t.op = "leaf" -> <<t.id>>
      [] t.op \in {"and_then", "then", "or_else"} -> Append(LeafIds(t.tx1), t.k.id)
      [] t.op = "join" -> Append(LeafIds(t.tx1), t.tx2.id)
      [] t.op = "join3" -> LeafIds(t.tx1) \o <<t.tx2.id, t.tx3.id>>
      [] t.op = "join4" -> LeafIds(t.tx1) \o <<t.tx2.id, t.tx3.id, t.tx4.id>>
      [] OTHER -> LeafIds(t.tx1)

\* the user functions a composition holds
RECURSIVE FnUses(_)
FnUses(t) ==
    CASE t.op = "leaf" -> <<>>
      [] t.op \in JoinOps -> FnUses(t.tx1)
      [] OTHER -> Append(FnUses(t.tx1), [op |-> t.op, f |-> t.f])

CountIn(seq, x) == Cardinality({i \in DOMAIN seq : seq[i] = x})
IsPrefix(p, q) == Len(p) <= Len(q) /\ SubSeq(q, 1, Len(p)) = p

\* the user functions called by the run, without the position of the call
CalledFns == [i \in DOMAIN st.calls |-> [op |-> st.calls[i].op, f |-> st.calls[i].f]]

\* C19: in one run every leaf of the composition executes at most once, every
\* user function it holds is called at most once, and the source of the
\* outermost combinator (hence, level by level, of every combinator) is run
\* exactly once: its leaves and calls open the logs of the run and the base
\* leaf is not executed again after them
C19_AtMostOnce ==
    phase = "ran" =>
        /\ \A i \in DOMAIN st.ctx :
              CountIn(st.ctx, st.ctx[i]) <= CountIn(LeafIds(tx), st.ctx[i])
        /\ \A i \in DOMAIN CalledFns :
              CountIn(CalledFns, CalledFns[i]) <= CountIn(FnUses(tx), CalledFns[i])
        /\ tx.op # "leaf" =>
              /\ IsPrefix(SourceRun.st.ctx, st.ctx)
              /\ IsPrefix(SourceRun.st.calls, st.calls)
              /\ CountIn(st.ctx, 1) = 1
              /\ Len(st.calls) <= Len(SourceRun.st.calls) + 1

C19_Witness ==
    /\ phase = "ran"
    /\ tx.op = "try_recover"
    /\ tx.tx1.op = "map"
    /\ st.ctx = <<1>>
    /\ CalledFns = <<[op |-> "try_recover", f |-> "escalate"]>>
    /\ result = Err("escalated")

\* every leaf and every function of a composition executed, each once
C19_WitnessAll ==
    /\ phase = "ran"
    /\ tx.op = "try_abort"
    /\ tx.tx1.op = "and_then"
    /\ st.ctx = LeafIds(tx)
    /\ CalledFns = FnUses(tx)

(***************************************************************************)
(* Part 3: the whole library: Tx methods, the free functions of main.rs    *)
(* and Transaction / WithCtx of transaction.rs (specification SpecLib)     *)
(***************************************************************************)
CanApplyFn == phase = "build" /\ Depth(tx) < MaxFnDepth

Fn_map ==
    /\ CanApplyFn
    /\ \E f \in ItemFns : tx' = map(tx, f)
    /\ UNCHANGED <<phase, st, result, runs>>
    /\ UNCHANGED <<runnerVars, checkVars>>

Fn_and_then ==
    /\ CanApplyFn
    /\ \E f \in ContFns, k \in ContLeaves : tx' = and_then(tx, f, k)
    /\ UNCHANGED <<phase, st, result, runs>>
    /\ UNCHANGED <<runnerVars, checkVars>>

Fn_then ==
    /\ CanApplyFn
    /\ \E f \in ContFns, k \in ContLeaves : tx' = then(tx, f, k)
    /\ UNCHANGED <<phase, st, result, runs>>
    /\ UNCHANGED <<runnerVars, checkVars>>

Fn_or_else ==
    /\ CanApplyFn
    /\ \E f \in ContFns, k \in ContLeaves : tx' = or_else(tx, f, k)
    /\ UNCHANGED <<phase, st, result, runs>>
    /\ UNCHANGED <<runnerVars, checkVars>>

Fn_join ==
    /\ CanApplyFn
    /\ \E tx2 \in Leaves(2) : tx' = join(tx, tx2)
    /\ UNCHANGED <<phase, st, result, runs>>
    /\ UNCHANGED <<runnerVars, checkVars>>

Fn_join3 ==
    /\ CanApplyFn
    /\ \E tx2 \in Leaves(2), tx3 \in Leaves(3) : tx' = join3(tx, tx2, tx3)
    /\ UNCHANGED <<phase, st, result, runs>>
    /\ UNCHANGED <<runnerVars, checkVars>>

Fn_join4 ==
    /\ CanApplyFn
    /\ \E tx2 \in Leaves(2), tx3 \in Leaves(3), tx4 \in Leaves(4) : tx' = join4(tx, tx2, tx3, tx4)
    /\ UNCHANGED <<phase, st, result, runs>>
    /\ UNCHANGED <<runnerVars, checkVars>>

Fn_map_err ==
    /\ CanApplyFn
    /\ \E f \in ErrFns : tx' = map_err(tx, f)
    /\ UNCHANGED <<phase, st, result, runs>>
    /\ UNCHANGED <<runnerVars, checkVars>>

Fn_try_map ==
    /\ CanApplyFn
    /\ \E f \in TryFns : tx' = try_map(tx, f)
    /\ UNCHANGED <<phase, st, result, runs>>
    /\ UNCHANGED <<runnerVars, checkVars>>

Fn_recover ==
    /\ CanApplyFn
    /\ \E f \in RecoverFns : tx' = recover(tx, f)
    /\ UNCHANGED <<phase, st, result, runs>>
    /\ UNCHANGED <<runnerVars, checkVars>>

Fn_try_recover ==
    /\ CanApplyFn
    /\ \E f \in TryRecoverFns : tx' = try_recover(tx, f)
    /\ UNCHANGED <<phase, st, result, runs>>
    /\ UNCHANGED <<runnerVars, checkVars>>

Fn_abort ==
    /\ CanApplyFn
    /\ \E f \in AbortFns : tx' = abort(tx, f)
    /\ UNCHANGED <<phase, st, result, runs>>
    /\ UNCHANGED <<runnerVars, checkVars>>

Fn_try_abort ==
    /\ CanApplyFn
    /\ \E f \in TryFns : tx' = try_abort(tx, f)
    /\ UNCHANGED <<phase, st, result, runs>>
    /\ UNCHANGED <<runnerVars, checkVars>>

\* the functions a WithCtx is given: F: Fn(&Ctx) -> Result<T, E>
CtxFns == {"read", "fail"}
ApplyCtxFn(f, ctx) == IF f = "read" THEN Ok(Scalar(Len(ctx))) ELSE Err("e1")

\* pub fn with_ctx(f) -> WithCtx<Ctx, F>
with_ctx(f) == [op |-> "with_ctx", f |-> f, boxed |-> FALSE]

\* fn run(&self, ctx: &Self::Ctx): (self.f)(ctx); ctx is only read
WithCtxRun(t, s) == [res |-> ApplyCtxFn(t.f, s.ctx), st |-> Call(s, "with_ctx", t.f)]

\* fn boxed(self) -> Box<dyn Transaction>: the value moves into the box
Transaction_boxed ==
    /\ phase = "shared"
    /\ ~tx.boxed
    /\ tx' = [tx EXCEPT !.boxed = TRUE]
    /\ UNCHANGED <<phase, st, result, runs>>
    /\ UNCHANGED <<runnerVars, checkVars>>

\* run borrows the value (&self): it is still there after the call
Transaction_run ==
    /\ phase = "shared"
    /\ runs < MaxRuns
    /\ result' = WithCtxRun(tx, st).res
    /\ st' = WithCtxRun(tx, st).st
    /\ runs' = runs + 1
    /\ UNCHANGED <<tx, phase>>
    /\ UNCHANGED <<runnerVars, checkVars>>

InitLib ==
    /\ InitRunnerIdle
    /\ \/ tx \in Leaves(1) /\ phase = "build"
       \/ tx \in {with_ctx(f) : f \in CtxFns} /\ phase = "shared"
    /\ st = St0
    /\ result = Err("-")
    /\ runs = 0
    /\ InitCheckIdle

NextLib ==
    \/ NextTx
    \/ Fn_map
    \/ Fn_and_then
    \/ Fn_then
    \/ Fn_or_else
    \/ Fn_join
    \/ Fn_join3
    \/ Fn_join4
    \/ Fn_map_err
    \/ Fn_try_map
    \/ Fn_recover
    \/ Fn_try_recover
    \/ Fn_abort
    \/ Fn_try_abort
    \/ Transaction_boxed
    \/ Transaction_run

SpecLib == InitLib /\ [][NextLib]_vars

(***************************************************************************)
(* Claims about the whole library (specification SpecLib)                  *)
(***************************************************************************)
\* the value is a Tx of main.rs: a leaf closure, a combinator struct or the
\* closure a free function returned
IsTx(t) == t.op # "with_ctx"

\* C11 as stated: run is invoked at most once on every transaction value of
\* the library, the Transaction / WithCtx values of transaction.rs included
C11_OneShotEveryValue == runs <= 1

\* C11: one-shot consumption of Tx: run(self, ..) consumes the value, so a Tx
\* of main.rs is run at most once, and it is gone (phase "ran": no combinator
\* and no run applies to it any more) exactly when it was run
C11_OneShotTx ==
    IsTx(tx) =>
        /\ runs <= 1
        /\ (runs = 1) <=> (phase = "ran")
        /\ phase \in {"build", "ran"}

C11_Witness ==
    /\ tx.op = "and_then"
    /\ tx.tx1.op = "fn_join"
    /\ phase = "ran"
    /\ runs = 1
    /\ st.ctx = <<1, 2, 6>>

\* a WithCtx value that was run twice through &self
C11_WitnessShared ==
    /\ tx.op = "with_ctx"
    /\ runs = 2
    /\ Len(st.calls) = 2

\* C12: inertness: while a composition is built (leaf construction, methods,
\* free functions, with_ctx, boxed) no leaf has executed, no user function was
\* called, ctx is as it was and there is no outcome; leaves and user functions
\* have executed only once run was invoked
C12_Inert ==
    /\ phase = "build" => st = St0 /\ result = Err("-") /\ runs = 0
    /\ runs = 0 => st = St0 /\ result = Err("-")
    /\ st # St0 => runs >= 1 /\ phase \in {"ran", "shared"}

C12_Witness ==
    /\ phase = "build"
    /\ tx.op = "try_map"
    /\ tx.tx1.op = "fn_and_then"
    /\ tx.tx1.f = "echo"
    /\ st = St0
    /\ runs = 0

\* the composition was run and its outermost combinator is op, as a method
\* or as a free function
RanEither(op) == phase = "ran" /\ IsTx(tx) /\ tx.op \in {op, "fn_" \o op}

\* C13: map: t.map(f) and map(t, f) return t's outcome with f applied to the
\* payload of a Success, calling f once after t; a Failure of t is returned as
\* it is without calling f; ctx is what t alone leaves behind
C13_MapFunctor ==
    RanEither("map") =>
        LET r == SourceRun
        IN  /\ r.res.ok =>
                /\ result = Ok(ApplyItemFn(tx.f, r.res.val))
                /\ st.calls = Append(r.st.calls,
                                     [op |-> "map", f |-> tx.f, at |-> Len(r.st.ctx)])
            /\ ~r.res.ok => result = r.res /\ st.calls = r.st.calls
            /\ st.ctx = r.st.ctx
            /\ Run(Map(tx.tx1, tx.f), St0) = Run(map(tx.tx1, tx.f), St0)

C13_Witness ==
    /\ RanEither("map")
    /\ tx.op = "map"
    /\ tx.f = "succ"
    /\ tx.tx1.op = "fn_join"
    /\ result = Ok(Tuple(<<Tuple(<<Scalar(1), Scalar(2)>>)>>))
    /\ st.ctx = <<1, 2>>

\* the Failure case of map: the source failed and f was not called
C13_WitnessFailure ==
    /\ RanEither("map")
    /\ tx.op = "fn_map"
    /\ result = Err("e1")
    /\ st.calls = <<>>

(***************************************************************************)
(* Part 4: which arguments a combinator call accepts: the where clauses of  *)
(* the trait methods, of the struct impls and of the free functions         *)
(* (specification SpecSig)                                                  *)
(***************************************************************************)
\* the types a source may have as Item and as Err
Types == {"i32", "String"}

\* a type, a Result<a, b>, or a Tx with Item = a and Err = b
Plain(a) == [k |-> "plain", a |-> a, b |-> a]
ResultTy(a, b) == [k |-> "result", a |-> a, b |-> b]
TxTy(a, b) == [k |-> "tx", a |-> a, b |-> b]

Ops == {"map", "and_then", "then", "or_else", "join", "join3", "join4", "map_err",
        "try_map", "recover", "try_recover", "abort", "try_abort"}
Forms == {"method", "free"}

\* what a function argument takes and what it returns; for the joins cod is
\* the type of the other operands and dom is not used
DomTys == {Plain(a) : a \in Types} \cup {ResultTy(a, b) : a \in Types, b \in Types}
CodTys ==
    {Plain(a) : a \in Types} \cup {ResultTy(a, b) : a \in Types, b \in Types}
        \cup {TxTy(a, b) : a \in Types, b \in Types}

\* source.op(arg) or op(source, arg) for a source with Item = item, Err = err
Calls ==
    {c \in [op : Ops, form : Forms, item : Types, err : Types, dom : DomTys, cod : CodTys] :
        c.op \in {"join", "join3", "join4"} => c.dom = Plain(c.item)}

\* the where clause of the trait method
MethodWhere(c) ==
    CASE c.op = "map" -> c.dom = Plain(c.item)
      [] c.op = "and_then" -> c.dom = Plain(c.item) /\ c.cod.k = "tx" /\ c.cod.b = c.err
      [] c.op = "then" ->
            c.dom = ResultTy(c.item, c.err) /\ c.cod.k = "tx" /\ c.cod.b = c.err
      [] c.op = "or_else" -> c.dom = Plain(c.err) /\ c.cod = TxTy(c.item, c.err)
      [] c.op \in {"join", "join3", "join4"} -> c.cod = TxTy(c.item, c.err)
      [] c.op = "map_err" -> c.dom = Plain(c.err)
      [] c.op = "try_map" -> c.dom = Plain(c.item) /\ c.cod.k = "result"
      [] c.op = "recover" -> c.dom = Plain(c.err) /\ c.cod.k = "result"
      [] c.op = "try_recover" -> c.dom = Plain(c.err) /\ c.cod.k = "result"
      [] c.op = "abort" -> c.dom = Plain(c.err)
      [] c.op = "try_abort" -> c.dom = Plain(c.err) /\ c.cod.k = "result"

\* the where clause of impl Tx<Ctx> for the struct the method returns
ImplWhere(c) ==
    CASE c.op = "map" -> c.dom = Plain(c.item)
      [] c.op = "and_then" -> c.dom = Plain(c.item) /\ c.cod.k = "tx" /\ c.cod.b = c.err
      [] c.op = "then" ->
            c.dom = ResultTy(c.item, c.err) /\ c.cod.k = "tx" /\ c.cod.b = c.err
      [] c.op = "or_else" -> c.dom = Plain(c.err) /\ c.cod = TxTy(c.item, c.err)
      [] c.op \in {"join", "join3", "join4"} -> c.cod.k = "tx" /\ c.cod.b = c.err
      [] c.op = "map_err" -> c.dom = Plain(c.err)
      [] c.op = "try_map" -> c.dom = Plain(c.item) /\ c.cod.k = "result" /\ c.cod.b = c.err
      [] c.op = "recover" -> c.dom = Plain(c.err) /\ c.cod = Plain(c.item)
      [] c.op = "try_recover" ->
            c.dom = Plain(c.err) /\ c.cod.k = "result" /\ c.cod.a = c.item
      [] c.op = "abort" -> c.dom = Plain(c.item) /\ c.cod = Plain(c.err)
      [] c.op = "try_abort" -> c.dom = Plain(c.item) /\ c.cod = ResultTy(c.item, c.err)

\* the where clause of the free function
FreeWhere(c) ==
    CASE c.op = "map" -> c.dom = Plain(c.item)
      [] c.op = "and_then" -> c.dom = Plain(c.item) /\ c.cod.k = "tx" /\ c.cod.b = c.err
      [] c.op = "then" ->
            c.dom = ResultTy(c.item, c.err) /\ c.cod.k = "tx" /\ c.cod.b = c.err
      [] c.op = "or_else" -> c.dom = Plain(c.err) /\ c.cod = TxTy(c.item, c.err)
      [] c.op \in {"join", "join3", "join4"} -> c.cod.k = "tx" /\ c.cod.b = c.err
      [] c.op = "map_err" -> c.dom = Plain(c.err)
      [] c.op = "try_map" -> c.dom = Plain(c.item) /\ c.cod.k = "result" /\ c.cod.b = c.err
      [] c.op = "recover" -> c.dom = Plain(c.err) /\ c.cod = Plain(c.item)
      [] c.op = "try_recover" ->
            c.dom = Plain(c.err) /\ c.cod.k = "result" /\ c.cod.a = c.item
      [] c.op = "abort" -> c.dom = Plain(c.item) /\ c.cod = Plain(c.err)
      [] c.op = "try_abort" -> c.dom = Plain(c.item) /\ c.cod = ResultTy(c.item, c.err)

\* what the compiler says: "no" the call is rejected, "not_tx" the method call
\* compiles but the struct it returns does not implement Tx (it cannot be run
\* nor composed further), "yes" the call yields a transaction
Verdict(c) ==
    IF c.form = "free"
    THEN IF FreeWhere(c) THEN "yes" ELSE "no"
    ELSE IF ~MethodWhere(c) THEN "no"
         ELSE IF ImplWhere(c) THEN "yes" ELSE "not_tx"

\* the same source and argument written in the other form
OtherForm(c) == [c EXCEPT !.form = IF c.form = "method" THEN "free" ELSE "method"]

\* source.op(arg) is type-checked
Check_method ==
    /\ accepted = "none"
    /\ call.form = "method"
    /\ accepted' = Verdict(call)
    /\ UNCHANGED call
    /\ UNCHANGED <<runnerVars, tx, phase, st, result, runs>>

\* op(source, arg) is type-checked
Check_free ==
    /\ accepted = "none"
    /\ call.form = "free"
    /\ accepted' = Verdict(call)
    /\ UNCHANGED call
    /\ UNCHANGED <<runnerVars, tx, phase, st, result, runs>>

InitSig ==
    /\ InitRunnerIdle
    /\ InitTxIdle
    /\ call \in Calls
    /\ accepted = "none"

NextSig ==
    \/ Check_method
    \/ Check_free

SpecSig == InitSig /\ [][NextSig]_vars

\* C15 as stated, the part on arguments: the method source.op(arg) yields a
\* transaction exactly for the arguments for which the free function
\* op(source, arg) does
C15_FluentSameArguments ==
    accepted # "none" => ((accepted = "yes") <=> (Verdict(OtherForm(call)) = "yes"))

\* abort(source, f) with f: FnOnce(i32) -> String on a source with Item = i32,
\* Err = String is accepted, source.abort(f) is rejected
C15_WitnessAbort ==
    /\ call = [op |-> "abort", form |-> "method", item |-> "i32", err |-> "String",
               dom |-> Plain("i32"), cod |-> Plain("String")]
    /\ accepted = "no"
    /\ Verdict(OtherForm(call)) = "yes"

\* the composition t with its outermost combinator written in the other form:
\* the struct of the method for the closure of the free function, and back
SwapForm(t) ==
    [t EXCEPT !.op = IF t.op \in Ops THEN "fn_" \o t.op ELSE SubSeq(t.op, 4, Len(t.op))]

\* the part of the fluent form on behaviour, under SpecLib: where both forms
\* exist, running the other form from the same ctx gives the same outcome,
\* the same ctx and the same calls
FluentSameRun ==
    (phase = "ran" /\ IsTx(tx) /\ tx.op # "leaf") =>
        Run(SwapForm(tx), St0) = [res |-> result, st |-> st]

FluentSameRunWitness ==
    /\ phase = "ran"
    /\ tx.op = "fn_try_abort"
    /\ SwapForm(tx).op = "try_abort"
    /\ result = Err("rejected")

\* C16: then: whatever the source returned, Success or Failure, f is called
\* exactly once, after every leaf of the source has executed, with the whole
\* outcome; the transaction f returns is run next on the same ctx and its
\* outcome is the outcome of the composition
C16_Then ==
    RanEither("then") =>
        LET r == SourceRun
        IN  /\ st.calls = Append(r.st.calls,
                                 [op |-> "then", f |-> tx.f, at |-> Len(r.st.ctx)])
            /\ st.ctx = Append(r.st.ctx, tx.k.id)
            /\ result = ApplyCont(tx.f, tx.k, r.res).res
            /\ tx.f = "echo" => result = r.res
            /\ tx.f = "const" => result = tx.k.res

C16_Witness ==
    /\ RanEither("then")
    /\ tx.op = "then"
    /\ tx.f = "const"
    /\ ~SourceRun.res.ok
    /\ result = Ok(Scalar(5))
    /\ st.ctx = <<1, 5>>
    /\ st.calls = <<[op |-> "then", f |-> "const", at |-> 1]>>

\* the free function, on a Success handed whole to f
C16_WitnessEcho ==
    /\ RanEither("then")
    /\ tx.op = "fn_then"
    /\ tx.f = "echo"
    /\ result = Ok(Scalar(1))
    /\ st.ctx = <<1, 5>>

\* C17: abort: a Success(t) of the source becomes Failure(f(t)), f being called
\* once after the source's leaves, whose effects stay in ctx; a Failure(e) of
\* the source is returned as it is and f is not called; the composition never
\* returns Success
C17_Abort ==
    RanEither("abort") =>
        LET r == SourceRun
        IN  /\ ~result.ok
            /\ r.res.ok =>
                /\ result = Err(ApplyAbortFn(tx.f, r.res.val))
                /\ st.ctx = r.st.ctx
                /\ st.calls = Append(r.st.calls,
                                     [op |-> "abort", f |-> tx.f, at |-> Len(r.st.ctx)])
            /\ ~r.res.ok => result = r.res /\ st = r.st

C17_Witness ==
    /\ RanEither("abort")
    /\ tx.op = "abort"
    /\ tx.tx1.op = "fn_join"
    /\ SourceRun.res = Ok(Tuple(<<Scalar(1), Scalar(2)>>))
    /\ result = Err("aborted")
    /\ st.ctx = <<1, 2>>

\* f sees the payload: aborting Success(1) gives the error made from 1
C17_WitnessPayload ==
    /\ RanEither("abort")
    /\ tx.op = "fn_abort"
    /\ result = Err("aborted_1")
    /\ st.ctx = <<1>>

\* the source failed: its error comes back and f was not called
C17_WitnessFailure ==
    /\ RanEither("abort")
    /\ result = Err("e1")
    /\ st.calls = <<>>

====
